---- MODULE Spec2Model ----
(***************************************************************************)
(* OgmiosWsClient (src/src/ws.rs): one duplex JSON-RPC connection, its     *)
(* pending buffer `messages`, and the operations send_request,             *)
(* read_response and request.  The server and the transport are the        *)
(* environment: they put frames on the read half of the stream, fail it,   *)
(* or end it.                                                              *)
(***************************************************************************)
EXTENDS Integers, Sequences, FiniteSets, TLC

\* ------------------------------------------------------------------ bounds
\* Stream items (frames or one transport error) the server produces in a run.
MaxFrames == 2

\* ------------------------------------------------------------- wire values
\* The method names this client sends (acquire_mempool, next_mempool_tx).
Methods == {"acquireMempool", "nextTransaction"}
\* The values Id::default() can draw.  Uuid::new_v4 is a random draw that is
\* not compared with any earlier draw, so the same value can come up twice.
Ids == {"id-1", "id-2"}
\* `id: None` of RpcResponseIdentifier: the frame has no id, or a null one.
NoId == "null"
\* Whether serde_json::from_str::<T> accepts the whole frame as the caller's T.
Bodies == {"ok", "bad"}

\* RpcResponseIdentifier { method, id }: derived PartialEq compares both fields.
RpcResponseIdentifier(method, id) == <<method, id>>

\* Message::Text whose envelope prefix parses as RpcResponseIdentifier.  A frame
\* without an id equals no awaited identifier (those carry Some(id)), so its
\* body is never decoded and one body stands for all.
TextFrames == [kind : {"text"}, method : Methods, id : Ids, body : Bodies]
              \cup [kind : {"text"}, method : Methods, id : {NoId}, body : {"ok"}]
\* Message::Text from which no RpcResponseIdentifier can be parsed
\* (no method, or an id that is not a string).
GarbageFrame == [kind |-> "garbage", method |-> "", id |-> NoId, body |-> "bad"]
\* Message::Binary / Ping / Pong / Close / Frame.
NonTextFrame == [kind |-> "nontext", method |-> "", id |-> NoId, body |-> "bad"]
FrameShapes == TextFrames \cup {GarbageFrame, NonTextFrame}
\* Some(Err(e)) of the stream: a transport error, after which the stream is over.
TransportError == [kind |-> "error", method |-> "", id |-> NoId, body |-> "bad"]

NoFrame == [fid |-> 0, kind |-> "none", method |-> "", id |-> NoId, body |-> "bad"]
NoIdentity == <<"", NoId>>

\* A stream item with its arrival number (the n-th item the server produced).
Stamp(shape, n) == [fid |-> n] @@ shape

\* `Message::Text(text) => ...` as opposed to `_ => bail!(...)`
IsText(f) == f.kind \in {"text", "garbage"}
\* serde_json::from_str::<RpcResponseIdentifier>(&text)
ParsesIdentity(f) == f.kind = "text"
IdentityOf(f) == RpcResponseIdentifier(f.method, f.id)
\* Decoding into a type that accepts every frame.
FromStrT_Lenient(f) == TRUE
\* serde_json::from_str::<T>(&text)
FromStrT(f) == f.body = "ok"

VARIABLES
    wire,          \* stream items that have arrived and are not read yet
    closed,        \* the stream yields None once `wire` is drained
    arrived,       \* number of items the server has produced
    messages,      \* OgmiosWsClient.messages: Seq of <<identifier, frame>>
    pc,            \* "idle", or "reading": read_response is in its while loop
    awaiting,      \* the identifier the running read_response was called with
    result,        \* what the last call returned, or its progress while reading
    outstanding,   \* the ids of the calls sent whose read_response has not
                   \* returned yet
    delivered,     \* arrival numbers of the frames returned Ok so far
    faults         \* what the calls so far have run into: "end" (a read saw
                   \* None), "fatal" (a non-text or unparsable frame was read),
                   \* "decode" (a frame with the awaited identity did not decode)

VARIABLES
    input,         \* the JSON value handed to a deserializer of the codec
    decoded        \* what the deserializer returned for it

vars == <<wire, closed, arrived, messages, pc, awaiting, result,
          outstanding, delivered, faults, input, decoded>>

NoReq == [jsonrpc |-> "", method |-> "", id |-> NoId]
NoResult == [op |-> "none", status |-> "none", ident |-> NoIdentity,
             frame |-> NoFrame, src |-> "none", err |-> "", req |-> NoReq]

\* A client right after connect().
ClientInit ==
    /\ wire = <<>>
    /\ closed = FALSE
    /\ arrived = 0
    /\ messages = <<>>
    /\ pc = "idle"
    /\ awaiting = NoIdentity
    /\ result = NoResult
    /\ outstanding = {}
    /\ delivered = {}
    /\ faults = {}

\* Nothing has been handed to the codec on its own.
NoInput == [as |-> "none", value |-> [t |-> "null"]]
NotDecoded == [ok |-> FALSE, kind |-> "none", names |-> {}]

Init ==
    /\ ClientInit
    /\ input = NoInput
    /\ decoded = NotDecoded

\* --------------------------------------------------------------- sequences
RemoveAt(s, k) == [j \in 1..(Len(s) - 1) |-> IF j < k THEN s[j] ELSE s[j + 1]]
Min(S) == CHOOSE k \in S : \A j \in S : k <= j

\* ------------------------------------------------------- outstanding calls
\* send_request returned Ok(id): a call carrying id is outstanding.
Sent(outst, id) == outst \cup {id}
\* read_response(_, id) returned: the call carrying id is over.
Returned(outst, identifier) == outst \ {identifier[2]}

\* ------------------------------------------------------------- environment
ServerSend(shape) ==
    /\ ~closed
    /\ arrived < MaxFrames
    /\ arrived' = arrived + 1
    /\ wire' = Append(wire, Stamp(shape, arrived + 1))
    /\ UNCHANGED <<closed, messages, pc, awaiting, result,
                   outstanding, delivered, faults,
                   input, decoded>>

ServerClose ==
    /\ ~closed
    /\ closed' = TRUE
    /\ UNCHANGED <<wire, arrived, messages, pc, awaiting, result,
                   outstanding, delivered, faults,
                   input, decoded>>

TransportFail ==
    /\ ~closed
    /\ arrived < MaxFrames
    /\ arrived' = arrived + 1
    /\ wire' = Append(wire, Stamp(TransportError, arrived + 1))
    /\ closed' = TRUE
    /\ UNCHANGED <<messages, pc, awaiting, result,
                   outstanding, delivered, faults,
                   input, decoded>>

\* ------------------------------------------------------------ &mut self
\* Methods taking &self: a call can start while another one is suspended.
BorrowMut_Shared == TRUE
\* send_request, read_response and request take `&mut self`: a call can start
\* only when no other call on this client is alive, i.e. none is suspended in
\* the read loop.
BorrowMut == pc = "idle"

\* ------------------------------------------------------------ send_request
\* Id::default(): a version-4 UUID, i.e. any value of the generator's range.
IdDefault == Ids

\* Building the envelope as the one-shot client does, with id: None.
DuplexRequest_NoId(method, id) == [jsonrpc |-> "2.0", method |-> method, id |-> NoId]
\* The RpcRequest send_request builds: jsonrpc "2.0", the method, id: Some(id).
DuplexRequest(method, id) == [jsonrpc |-> "2.0", method |-> method, id |-> id]

\* What send_request returned (Ok(id) or an error) and the envelope it handed
\* to write.send (NoReq when it returned before the write).
SendResult(op, status, id, err, req) ==
    [op |-> op, status |-> status, ident |-> <<req.method, id>>, frame |-> NoFrame,
     src |-> "none", err |-> err, req |-> req]

\* A send that throws the pending buffer away before it writes.
SendRequest_Draining(method) ==
    /\ BorrowMut
    /\ \E id \in IdDefault :
         /\ result' = SendResult("send", "Ok", id, "", DuplexRequest(method, id))
         /\ outstanding' = Sent(outstanding, id)
    /\ messages' = <<>>
    /\ UNCHANGED <<wire, closed, arrived, pc, awaiting, delivered, faults, input, decoded>>

\* send_request(method, params).  Serializing params can fail for Some(p)
\* (never for None); writeOk: the outcome of write.send.
SendRequest(method) ==
    /\ BorrowMut
    /\ \/ \* serde_json::to_value(p)? fails: nothing is generated or written
          /\ result' = SendResult("send", "Err", NoId, "serialize", NoReq)
          /\ UNCHANGED outstanding
       \/ \E id \in IdDefault, writeOk \in BOOLEAN :
            LET req == DuplexRequest(method, id) IN
            IF writeOk
            THEN /\ result' = SendResult("send", "Ok", id, "", req)
                 /\ outstanding' = Sent(outstanding, id)
            ELSE /\ result' = SendResult("send", "Err", NoId, "write", req)
                 /\ UNCHANGED outstanding
    /\ UNCHANGED <<wire, closed, arrived, messages, pc, awaiting, delivered, faults, input, decoded>>

\* ----------------------------------------------------------- read_response
\* Comparing the ids and not the methods.
IdentifierEq_IdOnly(a, b) == a[2] = b[2]
\* Comparing the methods and not the ids.
IdentifierEq_MethodOnly(a, b) == a[1] = b[1]
\* Taking no identifier for the awaited one.
IdentifierEq_Never(a, b) == FALSE
\* `msg.0 == identifier` / `new_identifier == identifier`
IdentifierEq(a, b) == a = b

\* Going to the stream without looking at the buffer.
BufferedMatches_Skipped(msgs, identifier) == {}
\* Indices of the buffered entries extract_if's predicate accepts.
BufferedMatches(msgs, identifier) ==
    {k \in 1..Len(msgs) : IdentifierEq(msgs[k][1], identifier)}

\* Draining the iterator: every accepted entry leaves the vector.
ExtractFirst_All(msgs, identifier) ==
    SelectSeq(msgs, LAMBDA e : ~IdentifierEq(e[1], identifier))
\* Reading the matching entry and leaving it in the vector.
ExtractFirst_Keep(msgs, identifier) == msgs
\* messages.extract_if(.., pred).next(): the first accepted entry leaves the
\* vector; dropping the iterator keeps every other entry, in order.
ExtractFirst(msgs, identifier) ==
    RemoveAt(msgs, Min(BufferedMatches(msgs, identifier)))

\* Putting the frame in front of the ones read before it.
PushMessage_Front(msgs, identifier, f) == <<<<identifier, f>>>> \o msgs
\* Going on to the next frame without keeping this one.
PushMessage_Drop(msgs, identifier, f) == msgs
\* self.messages.push((new_identifier, text.to_string()))
PushMessage(msgs, identifier, f) == Append(msgs, <<identifier, f>>)

ReadResult(op, status, identifier, f, src, err) ==
    [op |-> op, status |-> status, ident |-> identifier, frame |-> f,
     src |-> src, err |-> err,
     req |-> IF op = "request" THEN DuplexRequest(identifier[1], identifier[2])
             ELSE NoReq]

\* Reporting the end of the stream with the other bail! of the loop.
EndOfStream_Unexpected(op, identifier) ==
    ReadResult(op, "Err", identifier, NoFrame, "stream", "Unexpected message type")
\* bail!("Connection closed")
EndOfStream(op, identifier) ==
    ReadResult(op, "Err", identifier, NoFrame, "stream", "Connection closed")

\* Entry of read_response(method, id): the scan of the pending buffer, then
\* either a return or the first iteration of the read loop is awaited.
ReadEntry(op, identifier, outst) ==
    IF BufferedMatches(messages, identifier) # {}
    THEN LET msg == messages[Min(BufferedMatches(messages, identifier))] IN
         /\ messages' = ExtractFirst(messages, identifier)
         /\ pc' = "idle"
         /\ awaiting' = NoIdentity
         /\ outstanding' = Returned(outst, identifier)
         /\ IF FromStrT(msg[2])
            THEN /\ result' = ReadResult(op, "Ok", identifier, msg[2], "buffer", "")
                 /\ delivered' = delivered \cup {msg[2].fid}
                 /\ UNCHANGED faults
            ELSE /\ result' = ReadResult(op, "Err", identifier, NoFrame, "buffer",
                                         "deserialize payload")
                 /\ faults' = faults \cup {"decode"}
                 /\ UNCHANGED delivered
    ELSE /\ pc' = "reading"
         /\ awaiting' = identifier
         /\ outstanding' = outst
         /\ result' = ReadResult(op, "Pending", identifier, NoFrame, "stream", "")
         /\ UNCHANGED <<messages, delivered, faults>>

ReadResponse(method, id) ==
    /\ BorrowMut
    /\ ReadEntry("read", RpcResponseIdentifier(method, id), outstanding)
    /\ UNCHANGED <<wire, closed, arrived, input, decoded>>

\* The running read_response returns res; nothing is buffered.
ReadReturns(res, fault) ==
    /\ result' = res
    /\ pc' = "idle"
    /\ awaiting' = NoIdentity
    /\ outstanding' = Returned(outstanding, awaiting)
    /\ faults' = faults \cup fault
    /\ UNCHANGED messages

\* One iteration of `while let Some(msg) = self.read.next().await.transpose()?`.
\* It waits while the stream is open and has nothing to give.
ReadNext ==
    /\ pc = "reading"
    /\ wire # <<>> \/ closed
    /\ LET op == result.op
           fail(err) == ReadResult(op, "Err", awaiting, NoFrame, "stream", err)
       IN
       IF wire = <<>>
       THEN \* None: the loop ends
            /\ ReadReturns(EndOfStream(op, awaiting), {"end"})
            /\ UNCHANGED <<wire, delivered>>
       ELSE LET msg == Head(wire) IN
            /\ wire' = Tail(wire)
            /\ IF msg.kind = "error"
               THEN \* Some(Err(e)): transpose()? returns the transport error
                    /\ ReadReturns(fail("transport"), {})
                    /\ UNCHANGED delivered
               ELSE IF ~IsText(msg)
               THEN \* _ => bail!("Unexpected message type ...")
                    /\ ReadReturns(fail("Unexpected message type"), {"fatal"})
                    /\ UNCHANGED delivered
               ELSE IF ~ParsesIdentity(msg)
               THEN \* from_str::<RpcResponseIdentifier>(..).context(..)?
                    /\ ReadReturns(fail("deserialize identity"), {"fatal"})
                    /\ UNCHANGED delivered
               ELSE IF IdentifierEq(IdentityOf(msg), awaiting)
               THEN IF FromStrT(msg)
                    THEN /\ ReadReturns(ReadResult(op, "Ok", awaiting, msg, "stream", ""),
                                        {})
                         /\ delivered' = delivered \cup {msg.fid}
                    ELSE /\ ReadReturns(fail("deserialize payload"), {"decode"})
                         /\ UNCHANGED delivered
               ELSE /\ messages' = PushMessage(messages, IdentityOf(msg), msg)
                    /\ UNCHANGED <<pc, awaiting, result, outstanding, delivered, faults>>
    /\ UNCHANGED <<closed, arrived, input, decoded>>

\* request(method, params): send_request, then read_response with the id it
\* returned; a failed send returns before anything is read.
Request(method) ==
    /\ BorrowMut
    /\ \/ /\ result' = SendResult("request", "Err", NoId, "serialize", NoReq)
          /\ UNCHANGED <<outstanding, messages, pc, awaiting, delivered, faults>>
       \/ \E id \in IdDefault, writeOk \in BOOLEAN :
            IF writeOk
            THEN ReadEntry("request", RpcResponseIdentifier(method, id),
                           Sent(outstanding, id))
            ELSE /\ result' = SendResult("request", "Err", NoId, "write",
                                         DuplexRequest(method, id))
                 /\ UNCHANGED <<outstanding, messages, pc, awaiting, delivered,
                                faults>>
    /\ UNCHANGED <<wire, closed, arrived, input, decoded>>

Next ==
    \/ \E shape \in FrameShapes : ServerSend(shape)
    \/ ServerClose
    \/ TransportFail
    \/ \E method \in Methods : SendRequest(method)
    \/ \E method \in Methods, id \in Ids : ReadResponse(method, id)
    \/ ReadNext
    \/ \E method \in Methods : Request(method)

Spec == Init /\ [][Next]_vars

\* The executor keeps polling the future of a call that is awaited: an
\* iteration of the read loop that can run does run.  Nothing is assumed of
\* the server or of the callers.
LiveSpec == Spec /\ WF_vars(ReadNext)

\* ===================================================================== codec
\* ------------------------------------------------------------ serde_json::Value
\* The JSON values the deserializers are run on: null, strings, integer
\* numbers and objects.  Absent stands for a key the enclosing object lacks.
Absent == [t |-> "absent"]
Null == [t |-> "null"]
JString(s) == [t |-> "string", v |-> s]
\* The integer hi * 2^31 + lo, with 0 <= lo < 2^31.
JNumber(hi, lo) == [t |-> "number", hi |-> hi, lo |-> lo]
\* An object: a function from its keys to their values.  Keys and field names
\* are sequences of characters.
JObject(f) == [t |-> "object", v |-> f]

None == [some |-> FALSE]
Some(v) == [some |-> TRUE, v |-> v]
Ok(v) == [ok |-> TRUE, v |-> v]
\* A serde error: its kind and the field names its message mentions.
Err(kind, names) == [ok |-> FALSE, kind |-> kind, names |-> names]

\* Value::get(key): None for a missing key and for anything but an object.
Get(value, key) ==
    IF value.t = "object" /\ key \in DOMAIN value.v THEN Some(value.v[key])
    ELSE None

\* Deserializing an Option: a missing key and an explicit null are both None.
OptionOf(value) == IF value \in {Absent, Null} THEN None ELSE Some(value)

\* i32, u32 and u64 accept the integers of their range.
InI32(n) == n.hi \in {-1, 0}
InU32(n) == n.hi \in {0, 1}
InU64(n) == n.hi >= 0
\* The i32 an in-range number decodes to.
AsI32(n) == IF n.hi = 0 THEN n.lo ELSE (n.lo - 2147483647) - 1

\* serde_json::from_value::<ty>(value) for the scalar types of the schemas.
FromValue(ty, value) ==
    CASE ty = "String" ->
            IF value.t = "string" THEN Ok(value.v) ELSE Err("invalid type", {})
      [] ty = "i32" ->
            IF value.t # "number" THEN Err("invalid type", {})
            ELSE IF InI32(value) THEN Ok(AsI32(value)) ELSE Err("invalid value", {})
      [] ty = "u32" ->
            IF value.t # "number" THEN Err("invalid type", {})
            ELSE IF InU32(value) THEN Ok(value) ELSE Err("invalid value", {})
      [] ty = "u64" ->
            IF value.t # "number" THEN Err("invalid type", {})
            ELSE IF InU64(value) THEN Ok(value) ELSE Err("invalid value", {})
      [] ty = "Era" ->
            \* #[serde(untagged)] enum of unit variants: each variant is tried
            \* in turn and a unit variant accepts null only, so null is the
            \* first variant and nothing else decodes.
            IF value = Null THEN Ok("Byron")
            ELSE Err("data did not match any variant of untagged enum Era", {})

\* #[derive(Deserialize)] on a struct of scalar fields, run on a value: the
\* value has to be an object, every field of the schema has to be there with a
\* value of its type, other keys are skipped.  A value of the wrong type is
\* reported while the entries are visited, a missing field after that.
FromValueStruct(schema, value) ==
    LET idx == 1..Len(schema)
        at(k) == Get(value, schema[k].key)
        bad == {k \in idx : at(k).some /\ ~FromValue(schema[k].ty, at(k).v).ok}
        gone == {k \in idx : ~at(k).some}
    IN  IF value.t # "object" THEN Err("invalid type", {})
        ELSE IF bad # {} THEN Err(FromValue(schema[Min(bad)].ty, at(Min(bad)).v).kind, {})
        ELSE IF gone # {} THEN Err("missing field", {schema[Min(gone)].key})
        ELSE Ok([k \in {schema[j].key : j \in idx} |->
                    FromValue(schema[CHOOSE j \in idx : schema[j].key = k].ty,
                              Get(value, k).v).v])

\* ------------------------------------------------------- define_ogmios_error
\* Names, as sequences of characters.  The declared sub-fields of the test
\* enum EvaluationError and of CustomErrorData:
incompatible_era == <<"i", "n", "c", "o", "m", "p", "a", "t", "i", "b", "l", "e", "_", "e", "r", "a">>
minimum_required_era == <<"m", "i", "n", "i", "m", "u", "m", "_", "r", "e", "q", "u", "i", "r", "e", "d", "_", "e", "r", "a">>
current_node_era == <<"c", "u", "r", "r", "e", "n", "t", "_", "n", "o", "d", "e", "_", "e", "r", "a">>
details == <<"d", "e", "t", "a", "i", "l", "s">>
severity == <<"s", "e", "v", "e", "r", "i", "t", "y">>
\* The keys of an error object, and the field names of the fallback variant:
code == <<"c", "o", "d", "e">>
message == <<"m", "e", "s", "s", "a", "g", "e">>
data == <<"d", "a", "t", "a">>
error == <<"e", "r", "r", "o", "r">>
\* The name get_field passes to missing_field:
tmp == <<"t", "m", "p">>
\* The keys the JSON of the tests uses for the sub-fields:
incompatibleEra == <<"i", "n", "c", "o", "m", "p", "a", "t", "i", "b", "l", "e", "E", "r", "a">>
minimumRequiredEra == <<"m", "i", "n", "i", "m", "u", "m", "R", "e", "q", "u", "i", "r", "e", "d", "E", "r", "a">>
currentNodeEra == <<"c", "u", "r", "r", "e", "n", "t", "N", "o", "d", "e", "E", "r", "a">>

AsciiLowercase == <<"a", "b", "c", "d", "e", "f", "g", "h", "i", "j", "k", "l", "m", "n", "o", "p", "q", "r", "s", "t", "u", "v", "w", "x", "y", "z">>
AsciiUppercase == <<"A", "B", "C", "D", "E", "F", "G", "H", "I", "J", "K", "L", "M", "N", "O", "P", "Q", "R", "S", "T", "U", "V", "W", "X", "Y", "Z">>
\* char::to_ascii_uppercase
ToAsciiUppercase(c) ==
    IF \E i \in 1..Len(AsciiLowercase) : AsciiLowercase[i] = c
    THEN AsciiUppercase[CHOOSE i \in 1..Len(AsciiLowercase) : AsciiLowercase[i] = c]
    ELSE c

\* The loop of snake_to_camel from character k on; capitalize_next is the flag.
RECURSIVE SnakeToCamelFrom(_, _, _)
SnakeToCamelFrom(s, k, capitalize_next) ==
    IF k > Len(s) THEN <<>>
    ELSE IF s[k] = "_" THEN SnakeToCamelFrom(s, k + 1, TRUE)
    ELSE IF capitalize_next
         THEN <<ToAsciiUppercase(s[k])>> \o SnakeToCamelFrom(s, k + 1, FALSE)
         ELSE <<s[k]>> \o SnakeToCamelFrom(s, k + 1, FALSE)

\* Looking the field up under its declared name.
snake_to_camel_Verbatim(s) == s
snake_to_camel(s) == SnakeToCamelFrom(s, 1, FALSE)

\* #[serde(rename_all = "camelCase")] struct CustomErrorData
CustomErrorData == <<[key |-> details, ty |-> "String"],
                     [key |-> severity, ty |-> "u32"]>>

\* The table of the test enum EvaluationError, in the order of the match arms.
EvaluationError ==
    <<[code |-> 1, variant |-> "IncompatibleEra", shape |-> "struct",
       fields |-> <<[name |-> incompatible_era, ty |-> "String"]>>,
       single_ty |-> <<>>],
      [code |-> 2, variant |-> "NodeTipTooOld", shape |-> "struct",
       fields |-> <<[name |-> minimum_required_era, ty |-> "String"],
                    [name |-> current_node_era, ty |-> "String"]>>,
       single_ty |-> <<>>],
      [code |-> 3, variant |-> "NoData", shape |-> "unit",
       fields |-> <<>>, single_ty |-> <<>>],
      [code |-> 4, variant |-> "SingleValue", shape |-> "single",
       fields |-> <<>>, single_ty |-> CustomErrorData]>>
\* _ => Unknown { error: Value }
FallbackVariant == "Unknown"

\* A value of the generated enum: the variant, its message and its other
\* fields by name.
Variant(name, msg, fields) == [variant |-> name, message |-> msg, fields |-> fields]
NoFields == [n \in {} |-> Null]

\* Taking a missing message for the empty string.
RawErrorDeserialize_DefaultMessage(value) ==
    LET c == Get(value, code)
        m == Get(value, message)
        d == Get(value, data)
    IN  IF value.t # "object" THEN Err("invalid type", {})
        ELSE IF c.some /\ ~FromValue("i32", c.v).ok
        THEN Err(FromValue("i32", c.v).kind, {})
        ELSE IF m.some /\ ~FromValue("String", m.v).ok
        THEN Err("invalid type", {})
        ELSE IF ~c.some THEN Err("missing field", {code})
        ELSE Ok([code |-> FromValue("i32", c.v).v,
                 message |-> IF m.some THEN m.v.v ELSE "",
                 data |-> IF d.some THEN OptionOf(d.v) ELSE None])
\* RawError::deserialize: code: i32 and message: String have to be there,
\* data: Option<Value> is None when the key is missing or null.
RawErrorDeserialize(value) ==
    LET c == Get(value, code)
        m == Get(value, message)
        d == Get(value, data)
    IN  IF value.t # "object" THEN Err("invalid type", {})
        ELSE IF c.some /\ ~FromValue("i32", c.v).ok
        THEN Err(FromValue("i32", c.v).kind, {})
        ELSE IF m.some /\ ~FromValue("String", m.v).ok
        THEN Err("invalid type", {})
        ELSE IF ~c.some THEN Err("missing field", {code})
        ELSE IF ~m.some THEN Err("missing field", {message})
        ELSE Ok([code |-> FromValue("i32", c.v).v,
                 message |-> m.v.v,
                 data |-> IF d.some THEN OptionOf(d.v) ELSE None])

\* Filling a sub-field that is not there with the empty string.
get_field_OrDefault(value, field) ==
    LET found == Get(value, snake_to_camel(field.name))
    IN  IF ~found.some THEN Ok("")
        ELSE IF FromValue(field.ty, found.v).ok THEN FromValue(field.ty, found.v)
        ELSE Err("custom", FromValue(field.ty, found.v).names)
\* get_field(&data, stringify!(field)): the value under the camel-case key,
\* decoded as the field's type; E::missing_field("tmp") when the key is not
\* there, E::custom of the serde_json error when the value does not decode.
get_field(value, field) ==
    LET found == Get(value, snake_to_camel(field.name))
    IN  IF ~found.some THEN Err("missing field", {tmp})
        ELSE IF FromValue(field.ty, found.v).ok THEN FromValue(field.ty, found.v)
        ELSE Err("custom", FromValue(field.ty, found.v).names)

\* Asking a variant without payload for its data.
DeserializeUnit_NeedsData(entry, raw) ==
    IF ~raw.data.some THEN Err("missing field", {data})
    ELSE Ok(Variant(entry.variant, raw.message, NoFields))
\* @deserialize_variant, no data: the variant with the message.
DeserializeUnit(entry, raw) == Ok(Variant(entry.variant, raw.message, NoFields))

\* @deserialize_variant, struct: data has to be there, the fields are read in
\* the order they are declared and the first that fails ends the decoding.
DeserializeStruct(entry, raw) ==
    LET idx == 1..Len(entry.fields)
        res(k) == get_field(raw.data.v, entry.fields[k])
        failed == {k \in idx : ~res(k).ok}
        at(n) == CHOOSE k \in idx : entry.fields[k].name = n
    IN  IF ~raw.data.some THEN Err("missing field", {data})
        ELSE IF failed # {} THEN res(Min(failed))
        ELSE Ok(Variant(entry.variant, raw.message,
                        [n \in {entry.fields[k].name : k \in idx} |-> res(at(n)).v]))

\* @deserialize_variant, single: data has to be there and to decode as the
\* declared type.
DeserializeSingle(entry, raw) ==
    IF ~raw.data.some THEN Err("missing field", {data})
    ELSE LET payload == IF "scalar" \in DOMAIN entry
                        THEN FromValue(entry.scalar, raw.data.v)
                        ELSE FromValueStruct(entry.single_ty, raw.data.v)
         IN  IF ~payload.ok THEN Err("custom", payload.names)
             ELSE Ok(Variant(entry.variant, raw.message,
                             [n \in {data} |-> payload.v]))

\* Handing out null whatever data was sent.
DeserializeFallback_NoData(raw) ==
    Ok(Variant(FallbackVariant, raw.message,
               [n \in {code, error} |-> IF n = code THEN raw.code ELSE Null]))
\* The `_` arm: data.unwrap_or(Value::Null) goes into the fallback variant.
DeserializeFallback(raw) ==
    Ok(Variant(FallbackVariant, raw.message,
               [n \in {code, error} |->
                   IF n = code THEN raw.code
                   ELSE IF raw.data.some THEN raw.data.v ELSE Null]))

\* <$enum_name as Deserialize>::deserialize for the enum of the given table.
DeserializeError(table, value) ==
    LET parsed == RawErrorDeserialize(value)
        raw == parsed.v
        arms == {k \in 1..Len(table) : table[k].code = raw.code}
        entry == table[Min(arms)]
    IN  IF ~parsed.ok THEN parsed
        ELSE IF arms = {} THEN DeserializeFallback(raw)
        ELSE CASE entry.shape = "unit" -> DeserializeUnit(entry, raw)
               [] entry.shape = "struct" -> DeserializeStruct(entry, raw)
               [] entry.shape = "single" -> DeserializeSingle(entry, raw)

\* Answering with the code of the first arm for every known variant.
CodeOf_FirstArm(table, value) ==
    IF value.variant = FallbackVariant THEN value.fields[code] ELSE table[1].code
\* code(): the literal of the variant's arm, the stored code for the fallback.
CodeOf(table, value) ==
    IF value.variant = FallbackVariant THEN value.fields[code]
    ELSE table[CHOOSE k \in 1..Len(table) : table[k].variant = value.variant].code
\* message(): the message field, which every variant has.
MessageOf(value) == value.message

\* ---------------------------------------------------------------- RpcResponse
\* The keys of a response envelope, and the fields of AcquireMempoolResult.
jsonrpcKey == <<"j", "s", "o", "n", "r", "p", "c">>
methodKey == <<"m", "e", "t", "h", "o", "d">>
resultKey == <<"r", "e", "s", "u", "l", "t">>
idKey == <<"i", "d">>
acquired == <<"a", "c", "q", "u", "i", "r", "e", "d">>
slot == <<"s", "l", "o", "t">>

\* struct AcquireMempoolResult, the payload type T the envelopes are decoded
\* with.
AcquireMempoolResult == <<[key |-> acquired, ty |-> "String"],
                          [key |-> slot, ty |-> "u64"]>>

\* #[derive(Deserialize)] of RpcSuccess<T> and RpcError<E>: jsonrpc and method
\* are Strings that have to be there, so has the payload under `key` (payload
\* is the outcome of decoding it, looked at when the key is there), id defaults
\* to None; every other key is skipped.
RpcEnvelopeDeserialize(frame, key, payload) ==
    LET j == Get(frame, jsonrpcKey)
        m == Get(frame, methodKey)
        i == Get(frame, idKey)
    IN  IF frame.t # "object" THEN Err("invalid type", {})
        ELSE IF j.some /\ ~FromValue("String", j.v).ok THEN Err("invalid type", {})
        ELSE IF m.some /\ ~FromValue("String", m.v).ok THEN Err("invalid type", {})
        ELSE IF Get(frame, key).some /\ ~payload.ok THEN payload
        ELSE IF ~j.some THEN Err("missing field", {jsonrpcKey})
        ELSE IF ~m.some THEN Err("missing field", {methodKey})
        ELSE IF ~Get(frame, key).some THEN Err("missing field", {key})
        ELSE Ok([jsonrpc |-> j.v.v, method |-> m.v.v, payload |-> payload.v,
                 id |-> IF i.some THEN OptionOf(i.v) ELSE None])

RpcSuccessDeserialize(schema, frame) ==
    RpcEnvelopeDeserialize(frame, resultKey,
                           FromValueStruct(schema, Get(frame, resultKey).v))
RpcErrorDeserialize(table, frame) ==
    RpcEnvelopeDeserialize(frame, error,
                           DeserializeError(table, Get(frame, error).v))

\* #[serde(untagged)] enum RpcResponse<T, E>: the frame is tried as
\* Success(RpcSuccess<T>), then as Error(RpcError<E>); the first that decodes
\* is the value, and the decoding fails when neither does.
RpcResponseDeserialize(schema, table, frame) ==
    IF RpcSuccessDeserialize(schema, frame).ok
    THEN Ok([variant |-> "Success", body |-> RpcSuccessDeserialize(schema, frame).v])
    ELSE IF RpcErrorDeserialize(table, frame).ok
    THEN Ok([variant |-> "Error", body |-> RpcErrorDeserialize(table, frame).v])
    ELSE Err("data did not match any variant of untagged enum RpcResponse", {})

\* ------------------------------------------------------ NextTransactionResponse
transaction == <<"t", "r", "a", "n", "s", "a", "c", "t", "i", "o", "n">>
\* The fields struct Tx cannot do without (collateral has a default, cbor is
\* an Option).
TxRequired == {idKey, <<"i", "n", "p", "u", "t", "s">>, <<"o", "u", "t", "p", "u", "t", "s">>, <<"c", "o", "l", "l", "a", "t", "e", "r", "a", "l", "_", "r", "e", "t", "u", "r", "n">>, <<"f", "e", "e">>, <<"n", "e", "t", "w", "o", "r", "k">>}

\* struct TxPointer { id: String }
TxPointer == <<[key |-> idKey, ty |-> "String"]>>

\* #[serde(untagged)] enum MempoolTransaction: Tx(Tx) is tried first, then
\* TxPointer(TxPointer).  A Tx is kept as the object it was read from.
MempoolTransactionFromValue(value) ==
    IF value.t = "object" /\ TxRequired \subseteq DOMAIN value.v
    THEN Ok([variant |-> "Tx", v |-> value])
    ELSE IF FromValueStruct(TxPointer, value).ok
    THEN Ok([variant |-> "TxPointer", v |-> FromValueStruct(TxPointer, value).v])
    ELSE Err("data did not match any variant of untagged enum MempoolTransaction", {})

\* struct NextTransactionResult { transaction: Option<MempoolTransaction> }: an
\* object; a missing or null transaction is None.
NextTransactionResultFromValue(value) ==
    LET t == Get(value, transaction)
    IN  IF value.t # "object" THEN Err("invalid type", {})
        ELSE IF ~t.some \/ t.v = Null THEN Ok([transaction |-> None])
        ELSE IF ~MempoolTransactionFromValue(t.v).ok
        THEN MempoolTransactionFromValue(t.v)
        ELSE Ok([transaction |-> Some(MempoolTransactionFromValue(t.v).v)])

\* define_ogmios_error! enum MempoolError
MempoolError ==
    <<[code |-> 4000, variant |-> "MustAcquireMempoolFirst", shape |-> "unit",
       fields |-> <<>>, single_ty |-> <<>>]>>

\* RpcResponse<NextTransactionResult, MempoolError>, as an untagged enum.
NextTransactionResponseDeserialize(frame) ==
    LET success == RpcEnvelopeDeserialize(frame, resultKey,
                       NextTransactionResultFromValue(Get(frame, resultKey).v))
        failure == RpcEnvelopeDeserialize(frame, error,
                       DeserializeError(MempoolError, Get(frame, error).v))
    IN  IF success.ok THEN Ok([variant |-> "Success", body |-> success.v])
        ELSE IF failure.ok THEN Ok([variant |-> "Error", body |-> failure.v])
        ELSE Err("data did not match any variant of untagged enum RpcResponse", {})

\* Turning Success into Err and Error into Ok.
IntoResult_Swapped(response) ==
    IF response.variant = "Success" THEN [is |-> "Err", v |-> response.body.payload]
    ELSE [is |-> "Ok", v |-> response.body.payload]
\* impl Into<Result<T, E>> for RpcResponse<T, E>
IntoResult(response) ==
    IF response.variant = "Success" THEN [is |-> "Ok", v |-> response.body.payload]
    ELSE [is |-> "Err", v |-> response.body.payload]

\* ------------------------------------------------------------------------- Tip
\* enum Tip { Point { slot: u64, id: String }, Origin }
TipPoint(s, i) == [tip |-> "Point", slot |-> s, id |-> i]
TipOrigin == [tip |-> "Origin"]
\* struct Point of Tip's Deserialize
Point == <<[key |-> slot, ty |-> "u64"], [key |-> idKey, ty |-> "String"]>>

\* <Tip as Deserialize>::deserialize: the string "origin", or an object that
\* decodes as Point; the error of Point goes through Error::custom.
TipFromValue(value) ==
    IF value.t = "string" /\ value.v = "origin" THEN Ok(TipOrigin)
    ELSE IF value.t = "object"
    THEN LET point == FromValueStruct(Point, value)
         IN  IF point.ok THEN Ok(TipPoint(point.v[slot], point.v[idKey]))
             ELSE Err("custom", point.names)
    ELSE Err("custom", {})

\* u64::partial_cmp
U64Cmp(a, b) ==
    IF a.hi < b.hi \/ (a.hi = b.hi /\ a.lo < b.lo) THEN "Less"
    ELSE IF a = b THEN "Equal"
    ELSE "Greater"
\* <Tip as PartialOrd>::partial_cmp
partial_cmp(a, b) ==
    IF a.tip = "Point" /\ b.tip = "Point" THEN Some(U64Cmp(a.slot, b.slot))
    ELSE IF a.tip = "Origin" /\ b.tip = "Origin" THEN Some("Equal")
    ELSE None
\* #[derive(PartialEq)] on Tip: same variant and, for Point, same slot and id.
TipEq(a, b) == a = b

query_era == <<"q", "u", "e", "r", "y", "_", "e", "r", "a">>
ledger_era == <<"l", "e", "d", "g", "e", "r", "_", "e", "r", "a">>
\* The table of TipError, in the order of the match arms.
TipError ==
    <<[code |-> 2001, variant |-> "EraMismatch", shape |-> "struct",
       fields |-> <<[name |-> query_era, ty |-> "Era"],
                    [name |-> ledger_era, ty |-> "Era"]>>,
       single_ty |-> <<>>],
      [code |-> 2002, variant |-> "UnavailableInCurrentEra", shape |-> "unit",
       fields |-> <<>>, single_ty |-> <<>>],
      [code |-> 2003, variant |-> "StateAcquiredExpired", shape |-> "single",
       fields |-> <<>>, single_ty |-> <<>>, scalar |-> "String"]>>

\* TipResponse = RpcResponse<Tip, TipError>, as an untagged enum.
TipResponseDeserialize(frame) ==
    LET success == RpcEnvelopeDeserialize(frame, resultKey,
                       TipFromValue(Get(frame, resultKey).v))
        failure == RpcEnvelopeDeserialize(frame, error,
                       DeserializeError(TipError, Get(frame, error).v))
    IN  IF success.ok THEN Ok([variant |-> "Success", body |-> success.v])
        ELSE IF failure.ok THEN Ok([variant |-> "Error", body |-> failure.v])
        ELSE Err("data did not match any variant of untagged enum RpcResponse", {})

\* ------------------------------------------------------------ OgmiosHttpClient
\* What the transport made of a POST: the response body came back, send()
\* failed, or text() failed.
Transports == {"sent", "send failed", "body unreadable"}

\* OgmiosHttpClient::request: the error of send() or of text() with its
\* context, else what serde_json::from_str makes of the body (`response`).
OgmiosHttpClientRequest(transport, response) ==
    IF transport = "send failed" THEN Err("Failed to send request", {})
    ELSE IF transport = "body unreadable" THEN Err("Failed to read response body", {})
    ELSE response

\* The call of a facade did not return.
Panic == [is |-> "panic"]
\* Handing the error of the request to the caller as the Err of the facade.
UnwrapThenInto_Propagating(res) ==
    IF res.ok THEN IntoResult(res.v) ELSE [is |-> "Err", v |-> res.kind]
\* `.unwrap().into()` / `.expect(..).into()` on what request returned
UnwrapThenInto(res) ==
    IF res.ok THEN IntoResult(res.v) ELSE Panic

\* OgmiosHttpClient::query_tip
query_tip(transport, body) ==
    UnwrapThenInto(OgmiosHttpClientRequest(transport, TipResponseDeserialize(body)))

\* An object with the given keys; a key whose value is Absent is left out.
ObjectOf(keys, values) ==
    JObject([k \in {keys[n] : n \in {n \in 1..Len(keys) : values[n] # Absent}} |->
                values[CHOOSE n \in 1..Len(keys) : keys[n] = k]])

\* ------------------------------------------------------------------ RpcRequest
paramsKey == <<"p", "a", "r", "a", "m", "s">>
\* struct RpcRequest<T>
RpcRequest(jsonrpc, method, params, id) ==
    [jsonrpc |-> jsonrpc, method |-> method, params |-> params, id |-> id]
\* The envelope of send_request, with the params it ends up with: the value of
\* Some(p), or the empty object for None.
WsRequest(method, params, id) ==
    LET req == DuplexRequest(method, id)
    IN  RpcRequest(req.jsonrpc, req.method, Some(params),
                   IF req.id = NoId THEN None ELSE Some(JString(req.id)))
\* The envelope OgmiosHttpClient::request posts.
HttpRequest(method, params) == RpcRequest("2.0", method, params, None)

\* Leaving out the key of a field that is None.
OptionToValue_Skipped(opt) == IF opt.some THEN opt.v ELSE Absent
\* Serialize for Option: the value of Some, null for None.
OptionToValue(opt) == IF opt.some THEN opt.v ELSE Null

\* #[derive(Serialize)] of RpcRequest: the four fields under their names.
RpcRequestToValue(req) ==
    ObjectOf(<<jsonrpcKey, methodKey, paramsKey, idKey>>,
             <<JString(req.jsonrpc), JString(req.method),
               OptionToValue(req.params), OptionToValue(req.id)>>)

\* ------------------------------------------------------------- codec inputs
\* Codes of the table, codes outside it (9999, -1, and 2^31 and -2^31 - 1,
\* which no i32 holds) and a code that is not a number.
CodeValues == {JNumber(0, 1), JNumber(0, 2), JNumber(0, 3), JNumber(0, 4),
               JNumber(0, 9999), JNumber(-1, 2147483647), JNumber(1, 0),
               JNumber(-2, 2147483647), JString("1")}
MessageValues == {JString("Era mismatch"), JNumber(0, 7), Null}
FieldValues == {JString("Byron"), JNumber(0, 5)}
DataKeys == {incompatibleEra, minimumRequiredEra, currentNodeEra,
             minimum_required_era, details, severity}
DataValues ==
    {Null, JString("Byron"), JNumber(0, 5)}
    \cup {JObject(f) : f \in UNION {[S -> FieldValues] : S \in SUBSET DataKeys}}
ErrorObjects ==
    {ObjectOf(<<code, message, data>>, <<c, m, d>>) :
        c \in CodeValues \cup {Absent},
        m \in MessageValues \cup {Absent},
        d \in DataValues \cup {Absent}}

ResultValues ==
    {Null,
     ObjectOf(<<acquired, slot>>, <<JString("mempool"), JNumber(0, 1234)>>),
     ObjectOf(<<acquired, slot>>, <<JString("mempool"), JString("1234")>>)}
ErrorValues ==
    {Null,
     ObjectOf(<<code, message, data>>, <<JNumber(0, 3), JString("No data error"), Absent>>),
     ObjectOf(<<code, message, data>>, <<JNumber(0, 9999), JString("Oops"), JNumber(0, 5)>>),
     ObjectOf(<<code, message, data>>, <<JNumber(0, 1), JString("Era mismatch"), Absent>>),
     ObjectOf(<<code, message, data>>, <<JNumber(0, 3), Absent, Absent>>)}
Frames ==
    {ObjectOf(<<jsonrpcKey, methodKey, resultKey, error, idKey>>, <<j, m, r, e, i>>) :
        j \in {JString("2.0"), Absent},
        m \in {JString("acquireMempool"), Absent},
        r \in ResultValues \cup {Absent},
        e \in ErrorValues \cup {Absent},
        i \in {JString("id-1"), Null, Absent}}

\* Frames that answer nextTransaction.
NextTransactionFrames ==
    {ObjectOf(<<jsonrpcKey, methodKey, resultKey, error, idKey>>, <<j, JString("nextTransaction"), r, e, i>>) :
        j \in {JString("2.0"), Absent},
        r \in {Absent, Null, JObject(<<>>),
               ObjectOf(<<transaction>>, <<Null>>),
               ObjectOf(<<transaction>>, <<ObjectOf(<<idKey>>, <<JString("abc")>>)>>)},
        e \in {Absent,
               ObjectOf(<<code, message, data>>,
                        <<JNumber(0, 4000), JString("Must acquire"), Absent>>),
               ObjectOf(<<code, message, data>>,
                        <<JNumber(0, 9999), JString("Oops"), JNumber(0, 5)>>),
               ObjectOf(<<code, message, data>>, <<JNumber(0, 4000), Absent, Absent>>)},
        i \in {JString("id-1"), Null}}

\* The frames that decode to an RpcResponse value.
RpcResponses ==
    {f \in Frames : RpcResponseDeserialize(AcquireMempoolResult, EvaluationError, f).ok}

\* The params the requests are built with.
ParamValues == {JObject(<<>>), ObjectOf(<<transaction>>, <<JString("84a4")>>)}
HttpMethods == {"evaluateTransaction", "queryLedgerState/tip"}
WsRequests == {WsRequest(m, p, i) : m \in Methods, p \in ParamValues, i \in IdDefault}
HttpRequests ==
    {HttpRequest(m, p) : m \in HttpMethods, p \in {None} \cup {Some(v) : v \in ParamValues}}

\* Frames that answer acquireMempool: envelopes with or without a result, and
\* objects that have acquired and slot as keys of their own.
AcquireMempoolFrames ==
    {ObjectOf(<<jsonrpcKey, methodKey, resultKey, idKey, acquired, slot>>,
              <<JString("2.0"), JString("acquireMempool"), r, i, a, s>>) :
        r \in ResultValues \cup {Absent},
        i \in {JString("id-1"), Absent},
        a \in {JString("mempool"), Absent},
        s \in {JNumber(0, 1234), JString("1234"), Absent}}

\* Bodies that answer queryLedgerState/tip, and one that is no envelope.
TipResults ==
    {Null, JString("origin"), JString("tip"),
     ObjectOf(<<slot, idKey>>, <<JNumber(0, 1234), JString("abcd")>>),
     ObjectOf(<<slot, idKey>>, <<JNumber(0, 1234), Absent>>)}
TipErrors ==
    {Null,
     ObjectOf(<<code, message, data>>, <<JNumber(0, 2002), JString("Unavailable"), Absent>>),
     ObjectOf(<<code, message, data>>, <<JNumber(0, 2003), JString("Expired"), JString("point")>>),
     ObjectOf(<<code, message, data>>,
              <<JNumber(0, 2001), JString("Era mismatch"),
                ObjectOf(<<<<"q", "u", "e", "r", "y", "E", "r", "a">>,
                           <<"l", "e", "d", "g", "e", "r", "E", "r", "a">>>>,
                         <<JString("byron"), JString("conway")>>)>>),
     ObjectOf(<<code, message, data>>, <<JNumber(0, 9999), JString("Oops"), Absent>>),
     ObjectOf(<<code, message, data>>, <<JNumber(0, 2002), Absent, Absent>>)}
TipBodies ==
    {ObjectOf(<<jsonrpcKey, methodKey, resultKey, error, idKey>>,
              <<j, JString("queryLedgerState/tip"), r, e, Null>>) :
        j \in {JString("2.0"), Absent},
        r \in TipResults \cup {Absent},
        e \in TipErrors \cup {Absent}}
    \cup {JString("Bad Gateway")}
\* The calls of query_tip: a body for a request that went through, none for
\* one that did not.
QueryTipInputs ==
    {[as |-> "QueryTip", transport |-> "sent", value |-> b] : b \in TipBodies}
    \cup {[as |-> "QueryTip", transport |-> t, value |-> Null] :
             t \in Transports \ {"sent"}}

\* Pairs of tips.
Slots == {JNumber(0, 5), JNumber(0, 7), JNumber(1, 0)}
Tips == {TipOrigin} \cup {TipPoint(s, i) : s \in Slots, i \in {"aa", "bb"}}
TipPairs == {[as |-> "Tips", value |-> [a |-> a, b |-> b]] : a \in Tips, b \in Tips}

CodecInputs ==
    {[as |-> "EvaluationError", value |-> o] : o \in ErrorObjects}
    \cup {[as |-> "RpcResponse", value |-> f] : f \in Frames}
    \cup {[as |-> "NextTransactionResponse", value |-> f] : f \in NextTransactionFrames}
    \cup {[as |-> "AcquireMempool", value |-> f] : f \in AcquireMempoolFrames}
    \cup {[as |-> "Into", value |-> r] : r \in RpcResponses}
    \cup QueryTipInputs
    \cup TipPairs
    \cup {[as |-> "WsRequest", value |-> r] : r \in WsRequests}
    \cup {[as |-> "HttpRequest", value |-> r] : r \in HttpRequests}

\* --------------------------------------------------------------- codec steps
CodecInit ==
    /\ ClientInit
    /\ input \in CodecInputs
    /\ decoded = NotDecoded

\* serde_json::from_value::<EvaluationError>(input)
DeserializeEvaluationError ==
    /\ input.as = "EvaluationError"
    /\ decoded = NotDecoded
    /\ decoded' = DeserializeError(EvaluationError, input.value)
    /\ UNCHANGED <<wire, closed, arrived, messages, pc, awaiting, result,
                   outstanding, delivered, faults, input>>

\* serde_json::from_value::<RpcResponse<AcquireMempoolResult, EvaluationError>>(input)
DeserializeRpcResponse ==
    /\ input.as = "RpcResponse"
    /\ decoded = NotDecoded
    /\ decoded' = RpcResponseDeserialize(AcquireMempoolResult, EvaluationError,
                                         input.value)
    /\ UNCHANGED <<wire, closed, arrived, messages, pc, awaiting, result,
                   outstanding, delivered, faults, input>>

\* next_mempool_tx: what read_response returns for the frame it hands to
\* serde_json::from_str::<NextTransactionResponse>
DeserializeNextTransactionResponse ==
    /\ input.as = "NextTransactionResponse"
    /\ decoded = NotDecoded
    /\ decoded' = NextTransactionResponseDeserialize(input.value)
    /\ UNCHANGED <<wire, closed, arrived, messages, pc, awaiting, result,
                   outstanding, delivered, faults, input>>

\* response.into(), for the response the frame decodes to
Into ==
    /\ input.as = "Into"
    /\ decoded = NotDecoded
    /\ decoded' = Ok(IntoResult(RpcResponseDeserialize(AcquireMempoolResult,
                                                       EvaluationError,
                                                       input.value).v))
    /\ UNCHANGED <<wire, closed, arrived, messages, pc, awaiting, result,
                   outstanding, delivered, faults, input>>

\* serde_json::to_string(&req) in send_request, .json(&RpcRequest {..}) in
\* OgmiosHttpClient::request
SerializeRpcRequest ==
    /\ input.as \in {"WsRequest", "HttpRequest"}
    /\ decoded = NotDecoded
    /\ decoded' = Ok(RpcRequestToValue(input.value))
    /\ UNCHANGED <<wire, closed, arrived, messages, pc, awaiting, result,
                   outstanding, delivered, faults, input>>

\* error.code() and error.message() on the value that was decoded
Accessors ==
    /\ input.as = "EvaluationError"
    /\ decoded.ok
    /\ "code" \notin DOMAIN decoded
    /\ decoded' = [ok |-> TRUE, v |-> decoded.v,
                   code |-> CodeOf(EvaluationError, decoded.v),
                   message |-> MessageOf(decoded.v)]
    /\ UNCHANGED <<wire, closed, arrived, messages, pc, awaiting, result,
                   outstanding, delivered, faults, input>>

\* acquire_mempool: what read_response returns for the frame it hands to
\* serde_json::from_str::<AcquireMempoolResult>
AcquireMempool ==
    /\ input.as = "AcquireMempool"
    /\ decoded = NotDecoded
    /\ decoded' = FromValueStruct(AcquireMempoolResult, input.value)
    /\ UNCHANGED <<wire, closed, arrived, messages, pc, awaiting, result,
                   outstanding, delivered, faults, input>>

\* http.query_tip().await for what the transport gives
QueryTip ==
    /\ input.as = "QueryTip"
    /\ decoded = NotDecoded
    /\ decoded' = Ok(query_tip(input.transport, input.value))
    /\ UNCHANGED <<wire, closed, arrived, messages, pc, awaiting, result,
                   outstanding, delivered, faults, input>>

\* a.partial_cmp(&b) and a == b
ComparePair ==
    /\ input.as = "Tips"
    /\ decoded = NotDecoded
    /\ decoded' = Ok([cmp |-> partial_cmp(input.value.a, input.value.b),
                      eq |-> TipEq(input.value.a, input.value.b)])
    /\ UNCHANGED <<wire, closed, arrived, messages, pc, awaiting, result,
                   outstanding, delivered, faults, input>>

CodecNext ==
    \/ DeserializeEvaluationError
    \/ Accessors
    \/ DeserializeRpcResponse
    \/ DeserializeNextTransactionResponse
    \/ AcquireMempool
    \/ Into
    \/ QueryTip
    \/ ComparePair
    \/ SerializeRpcRequest

CodecSpec == CodecInit /\ [][CodecNext]_vars

\* ==================================================================== claims
\* The (method, id) a frame carries on the wire, read off the frame itself.
WireIdentity(f) == <<f.method, f.id>>
\* Steps of the running read_response that take a frame off the stream.
TakesFrame == pc = "reading" /\ wire # <<>> /\ wire' = Tail(wire)
              /\ Head(wire).kind # "error"
\* Steps in which read_response or request is called with a buffered identity.
ClaimsBuffered ==
    /\ pc = "idle"
    /\ result' # result
    /\ result'.op \in {"read", "request"}
    /\ result'.status # "Err" \/ result'.err # "write"
    /\ result'.status # "Err" \/ result'.err # "serialize"
    /\ \E k \in 1..Len(messages) : WireIdentity(messages[k][2]) = result'.ident
FirstBuffered(identifier) ==
    Min({k \in 1..Len(messages) : WireIdentity(messages[k][2]) = identifier})
FrameIds(seq) == {seq[k].fid : k \in 1..Len(seq)}
BufferedFrames == [k \in 1..Len(messages) |-> messages[k][2]]

\* C1: whatever the order of arrival and of awaiting, a frame read while
\* another identity is awaited is appended to the buffer under its own identity
\* and the call goes on reading; the frame carrying the awaited identity ends
\* the call and is the one returned; a call for a buffered identity is handed
\* the first buffered frame of that identity.
C1_Routing ==
    [][ /\ (TakesFrame /\ Head(wire).kind = "text") =>
              IF WireIdentity(Head(wire)) = awaiting
              THEN /\ pc' = "idle"
                   /\ messages' = messages
                   /\ Head(wire).body = "ok" =>
                        /\ result'.status = "Ok"
                        /\ result'.frame = Head(wire)
                        /\ result'.ident = awaiting
              ELSE /\ pc' = "reading"
                   /\ awaiting' = awaiting
                   /\ messages' = Append(messages,
                                         <<WireIdentity(Head(wire)), Head(wire)>>)
        /\ ClaimsBuffered =>
              LET f == messages[FirstBuffered(result'.ident)][2] IN
              /\ pc' = "idle"
              /\ f.body = "ok" => result'.status = "Ok" /\ result'.frame = f
      ]_vars

\* A frame read earlier is handed out of the buffer after a frame read later
\* was returned to its own call.
C1_Witness ==
    /\ result.status = "Ok"
    /\ result.src = "buffer"
    /\ \E d \in delivered : d > result.frame.fid

\* C2: a call whose identity is in the pending buffer returns at once from the
\* first such entry, which leaves the buffer, and the stream is not touched,
\* whatever state the stream is in.
C2_BufferedNoRead ==
    [][ ClaimsBuffered =>
          /\ wire' = wire
          /\ closed' = closed
          /\ arrived' = arrived
          /\ pc' = "idle"
          /\ result'.status \in {"Ok", "Err"}
          /\ result'.src = "buffer"
          /\ messages' = RemoveAt(messages, FirstBuffered(result'.ident))
      ]_vars

\* A call answered from the buffer after an earlier call saw the stream end.
C2_Witness ==
    /\ result.status = "Ok"
    /\ result.src = "buffer"
    /\ "end" \in faults
    /\ closed
    /\ wire = <<>>

\* C3: a frame that was returned to a call is neither on the stream nor in the
\* buffer any more, and no frame is in two places, so no frame is returned twice.
C3_AtMostOnce ==
    /\ FrameIds(BufferedFrames) \cap delivered = {}
    /\ FrameIds(wire) \cap delivered = {}
    /\ FrameIds(BufferedFrames) \cap FrameIds(wire) = {}
    /\ Cardinality(FrameIds(BufferedFrames)) = Len(messages)
    /\ Cardinality(FrameIds(wire)) = Len(wire)
    /\ result.status = "Ok" /\ result.op \in {"read", "request"}
         => result.frame.fid \in delivered

\* Two frames were buffered and both were claimed, the buffer being empty again.
C3_Witness ==
    /\ result.status = "Ok"
    /\ result.src = "buffer"
    /\ Cardinality(delivered) = 2
    /\ messages = <<>>
    /\ "end" \in faults

\* C4: an Ok of read_response(M, I) or request carries a frame whose method is
\* M and whose id is I, never a frame of another method, another id or no id.
C4_OkOnlyOwnIdentity ==
    (result.status = "Ok" /\ result.op \in {"read", "request"}) =>
        /\ result.frame.kind = "text"
        /\ result.frame.method = result.ident[1]
        /\ result.frame.id = result.ident[2]
        /\ result.frame.id \in Ids

\* request got its frame after a frame with its id under the other method was
\* read and passed over.
C4_Witness ==
    /\ result.status = "Ok"
    /\ result.op = "request"
    /\ \E k \in 1..Len(messages) :
         /\ messages[k][2].id = result.ident[2]
         /\ messages[k][2].method # result.ident[1]
         /\ messages[k][2].fid < result.frame.fid

\* C5 as stated: every frame taken off the stream is returned to the awaiting
\* call by that step or appended to the pending buffer.
C5_NoFrameDiscarded ==
    [][ TakesFrame =>
          \/ /\ result'.status = "Ok"
             /\ result'.frame = Head(wire)
             /\ pc' = "idle"
          \/ messages' = Append(messages, <<WireIdentity(Head(wire)), Head(wire)>>)
      ]_vars

\* C5, amended: a frame taken off the stream is returned to the awaiting call,
\* or appended to the pending buffer, or dropped together with an error that
\* ends the call; the last happens exactly for a non-text frame, a text frame
\* without a parseable identity, and a frame of the awaited identity that does
\* not decode.
C5_KeptUnlessCallFails ==
    [][ TakesFrame =>
          LET h == Head(wire)
              bad == \/ h.kind # "text"
                     \/ WireIdentity(h) = awaiting /\ h.body = "bad"
          IN
          IF bad
          THEN /\ result'.status = "Err"
               /\ pc' = "idle"
               /\ messages' = messages
          ELSE \/ /\ result'.status = "Ok"
                  /\ result'.frame = h
                  /\ pc' = "idle"
                  /\ messages' = messages
               \/ /\ messages' = Append(messages, <<WireIdentity(h), h>>)
                  /\ pc' = "reading"
      ]_vars

\* One frame was buffered and the next one, a non-text frame, was dropped.
C5_Witness ==
    /\ result.status = "Err"
    /\ result.err = "Unexpected message type"
    /\ Len(messages) = 1
    /\ arrived - Len(wire) = 2

\* C6: a read_response that finds the stream ended, having read no frame of
\* its identity, returns the error "Connection closed"; the frames it buffered
\* on the way stay buffered.
C6_EndOfStreamFails ==
    [][ (pc = "reading" /\ wire = <<>> /\ closed) =>
          /\ pc' = "idle"
          /\ result'.status = "Err"
          /\ result'.err = "Connection closed"
          /\ result'.ident = awaiting
          /\ messages' = messages
      ]_vars

\* The stream ended under a waiting call that had buffered a frame.
C6_Witness ==
    /\ result.status = "Err"
    /\ result.err = "Connection closed"
    /\ result.op = "read"
    /\ messages # <<>>

\* C7 as stated: once a read has seen the stream end, every call made
\* afterwards fails (a read_response may be on its way to failing), and none
\* gets as far as a write.
C7_ClosedForGood ==
    [][ ("end" \in faults /\ pc = "idle" /\ result' # result) =>
          /\ result'.status \in {"Err", "Pending"}
          /\ result'.status = "Err" =>
               result'.err \in {"Connection closed", "serialize"}
          /\ result'.req = NoReq
      ]_vars

\* C8 as stated: once a non-text frame or a text frame without a parseable
\* identity has been read, no call returns Ok any more.
C8_FatalCloses ==
    "fatal" \in faults => result.status \in {"Err", "Pending"}

\* C9: when the frame of the awaited identity does not decode, that call gets
\* an error and nothing else changes: the buffer keeps its entries, the rest of
\* the stream stays unread and open, and the connection is not marked by an end
\* or a fatal error.
C9_DecodeFailureIsLocal ==
    [][ (TakesFrame /\ Head(wire).kind = "text"
         /\ WireIdentity(Head(wire)) = awaiting /\ Head(wire).body = "bad") =>
          /\ result'.status = "Err"
          /\ result'.err = "deserialize payload"
          /\ pc' = "idle"
          /\ messages' = messages
          /\ wire' = Tail(wire)
          /\ closed' = closed
          /\ faults' \ {"decode"} = faults \ {"decode"}
      ]_vars

\* After a decode failure, and nothing worse, a later call was answered from an
\* entry the buffer had kept.
C9_Witness ==
    /\ faults = {"decode"}
    /\ result.status = "Ok"
    /\ result.src = "buffer"
    /\ ~closed

\* C10 as stated: the id a call is sent with is carried by no call that is
\* outstanding at that moment.
C10_UniqueAmongOutstanding ==
    [][ (/\ pc = "idle"
         /\ result' # result
         /\ result'.req # NoReq
         /\ ~(result'.status = "Err" /\ result'.err = "write")) =>
          result'.req.id \notin outstanding
      ]_vars

\* C10, amended: send_request draws an id, puts that id (never none) on the
\* envelope it writes and returns the same id, and the call is outstanding
\* under it; nothing compares the draw with the ids of outstanding calls.
C10_IdAttached ==
    /\ result.req # NoReq =>
         /\ result.req.id \in Ids
         /\ result.req.method \in Methods
    /\ (result.op = "send" /\ result.status = "Ok") =>
         /\ result.req # NoReq
         /\ result.ident = <<result.req.method, result.req.id>>
         /\ result.req.id \in outstanding
    /\ (result.op = "request" /\ result.status = "Pending") =>
         /\ result.req # NoReq
         /\ awaiting = <<result.req.method, result.req.id>>
         /\ result.req.id \in outstanding

\* A second call was sent while the first was outstanding, with another id.
C10_Witness ==
    /\ result.op = "send"
    /\ result.status = "Ok"
    /\ Cardinality(outstanding) = 2

C12_OnlyOwnCallRemoves ==
    [][ /\ \A k \in 1..Len(messages) :
              \/ \E j \in 1..Len(messages') : messages'[j] = messages[k]
              \/ /\ pc = "idle"
                 /\ result'.op \in {"read", "request"}
                 /\ result'.src = "buffer"
                 /\ result'.ident = WireIdentity(messages[k][2])
        /\ Len(messages') >= Len(messages) - 1
      ]_vars

\* Every frame the server produced sits in the buffer after the call that read
\* them has returned, and none of them is awaited by an outstanding call.
C12_Witness ==
    /\ pc = "idle"
    /\ arrived = MaxFrames
    /\ Len(messages) = arrived
    /\ \A k \in 1..Len(messages) : messages[k][2].id \notin outstanding

\* C13: while a read_response is suspended in its read loop it is the only
\* call alive on the client: no other call starts or returns, the awaited
\* identity does not change under it, frames leave the stream one at a time
\* from its head, the buffer changes only by the running call appending the
\* frame it has just taken off the stream, and the call that returns is the one
\* that was reading.
C13_SingleReader ==
    [][ pc = "reading" =>
          /\ awaiting' \in {awaiting, NoIdentity}
          /\ pc' = "reading" => result' = result
          /\ pc' = "idle" => result'.ident = awaiting /\ result'.op = result.op
          /\ Len(wire') < Len(wire) => wire' = Tail(wire)
          /\ messages' # messages =>
                /\ wire # <<>>
                /\ wire' = Tail(wire)
                /\ messages' = Append(messages,
                                      <<WireIdentity(Head(wire)), Head(wire)>>)
      ]_vars

\* A call is suspended in the read loop with a frame already buffered while a
\* buffered identity and an unread frame are both there for another call to
\* take, had one been able to start.
C13_Witness ==
    /\ pc = "reading"
    /\ messages # <<>>
    /\ wire # <<>>
    /\ messages[1][1] # awaiting

\* --------------------------------------------------- claims about the codec
\* The error object that was handed to the deserializer of EvaluationError,
\* once it has returned, and what the object holds under its three keys.
ErrorDecoded == input.as = "EvaluationError" /\ decoded # NotDecoded
InCode == Get(input.value, code)
InMessage == Get(input.value, message)
InData == Get(input.value, data)
HasIntegerCode == InCode.some /\ InCode.v.t = "number"
HasStringMessage == InMessage.some /\ InMessage.v.t = "string"
\* The code is one of the four codes of the table.
CodeIs(n) == HasIntegerCode /\ InCode.v.hi = 0 /\ InCode.v.lo = n
CodeInTable == \E n \in {1, 2, 3, 4} : CodeIs(n)
\* The data key holds an object in which key k holds a value of JSON type ty.
DataHas(k, ty) ==
    /\ InData.some
    /\ InData.v.t = "object"
    /\ k \in DOMAIN InData.v.v
    /\ InData.v.v[k].t = ty
\* What the fallback variant is to carry for this input.
ExpectedFallback ==
    Variant("Unknown", InMessage.v.v,
            [n \in {code, error} |->
                IF n = code
                THEN (IF InCode.v.hi = 0 THEN InCode.v.lo
                      ELSE (InCode.v.lo - 2147483647) - 1)
                ELSE IF InData.some THEN InData.v ELSE Null])

\* C14, as stated: every error object with an integer code that is not in the
\* table and a string message decodes to the fallback variant, which carries
\* the code, the message and the data, or null when there was no data.
C14_AnyIntegerCodeFallsBack ==
    (ErrorDecoded /\ HasIntegerCode /\ HasStringMessage /\ ~CodeInTable) =>
        decoded.ok

\* C14, amended: every error object with a string message and an integer code
\* that fits a signed 32-bit integer and is not in the table decodes to the
\* fallback variant carrying that code, that message and the data as sent, or
\* null when data was absent.
C14_UnknownCodeFallsBack ==
    (ErrorDecoded /\ HasIntegerCode /\ HasStringMessage /\ ~CodeInTable
     /\ InCode.v.hi \in {-1, 0}) =>
        /\ decoded.ok
        /\ decoded.v = ExpectedFallback

\* An unknown code came with a non-empty data object and was decoded.
C14_Witness ==
    /\ ErrorDecoded
    /\ decoded.ok
    /\ decoded.v.variant = "Unknown"
    /\ decoded.v.fields[code] = 9999
    /\ decoded.v.fields[error].t = "object"
    /\ DOMAIN decoded.v.fields[error].v # {}

\* C15: an error object with a code of the table and a valid payload decodes
\* to the variant declared for that code, whose sub-fields hold the values
\* found under the camel-case keys: incompatible_era from incompatibleEra,
\* minimum_required_era from minimumRequiredEra, current_node_era from
\* currentNodeEra; the single payload of code 4 is the decoded data.
C15_DeclaredVariant ==
    (ErrorDecoded /\ HasStringMessage) =>
        /\ (CodeIs(1) /\ DataHas(incompatibleEra, "string")) =>
              /\ decoded.ok
              /\ decoded.v = Variant("IncompatibleEra", InMessage.v.v,
                     [n \in {incompatible_era} |-> InData.v.v[incompatibleEra].v])
        /\ (CodeIs(2) /\ DataHas(minimumRequiredEra, "string")
                      /\ DataHas(currentNodeEra, "string")) =>
              /\ decoded.ok
              /\ decoded.v = Variant("NodeTipTooOld", InMessage.v.v,
                     [n \in {minimum_required_era, current_node_era} |->
                         IF n = minimum_required_era
                         THEN InData.v.v[minimumRequiredEra].v
                         ELSE InData.v.v[currentNodeEra].v])
        /\ CodeIs(3) =>
              /\ decoded.ok
              /\ decoded.v.variant = "NoData"
        /\ (CodeIs(4) /\ DataHas(details, "string") /\ DataHas(severity, "number")) =>
              /\ decoded.ok
              /\ decoded.v = Variant("SingleValue", InMessage.v.v,
                     [n \in {data} |->
                         [k \in {details, severity} |->
                             IF k = details THEN InData.v.v[details].v
                             ELSE InData.v.v[severity]]])

\* Code 2 was decoded from a payload that also holds a value under the
\* underscore-separated name, which is not the one the variant got.
C15_Witness ==
    /\ ErrorDecoded
    /\ decoded.ok
    /\ decoded.v.variant = "NodeTipTooOld"
    /\ DataHas(minimum_required_era, "number")
    /\ decoded.v.fields[minimum_required_era] = InData.v.v[minimumRequiredEra].v

\* C16: the unit variant of code 3 decodes, to the variant with the message and
\* nothing else, whether data is absent, null or any value.
C16_UnitIgnoresData ==
    (ErrorDecoded /\ HasStringMessage /\ CodeIs(3)) =>
        /\ decoded.ok
        /\ decoded.v = Variant("NoData", InMessage.v.v, NoFields)

\* The unit variant was decoded from an error object whose data is an object
\* with a key in it.
C16_Witness ==
    /\ ErrorDecoded
    /\ decoded.ok
    /\ decoded.v.variant = "NoData"
    /\ Get(input.value, data).some
    /\ Get(input.value, data).v.t = "object"
    /\ details \in DOMAIN Get(input.value, data).v.v

\* C17: for the structured codes 1 and 2 and the single-payload code 4,
\* decoding fails when there is no data, when a declared sub-field is not in
\* data or is not a string, and when data does not decode as CustomErrorData;
\* no variant at all is produced then.
C17_BadPayloadFails ==
    (ErrorDecoded /\ HasStringMessage) =>
        /\ (CodeIs(1) /\ ~DataHas(incompatibleEra, "string")) => ~decoded.ok
        /\ (CodeIs(2) /\ ~(/\ DataHas(minimumRequiredEra, "string")
                           /\ DataHas(currentNodeEra, "string"))) => ~decoded.ok
        /\ (CodeIs(4) /\ ~(/\ DataHas(details, "string")
                           /\ DataHas(severity, "number"))) => ~decoded.ok

\* Code 2 came with one of its two sub-fields only, and decoding failed.
C17_Witness ==
    /\ ErrorDecoded
    /\ HasStringMessage
    /\ CodeIs(2)
    /\ DataHas(minimumRequiredEra, "string")
    /\ InData.v.t = "object"
    /\ currentNodeEra \notin DOMAIN InData.v.v
    /\ ~decoded.ok

\* C18: when a structured variant fails because a declared sub-field is not in
\* data or has the wrong type, the error names that sub-field, under its
\* declared name or under its key.
C18_ErrorNamesSubField ==
    (ErrorDecoded /\ HasStringMessage /\ CodeIs(1)
     /\ InData.some /\ InData.v.t = "object"
     /\ ~DataHas(incompatibleEra, "string")) =>
        /\ ~decoded.ok
        /\ decoded.names \cap {incompatible_era, incompatibleEra} # {}

\* C19: an error object without a code or without a message does not decode,
\* whatever its other keys hold.
C19_CodeAndMessageRequired ==
    (ErrorDecoded /\ (~InCode.some \/ ~InMessage.some)) => ~decoded.ok

\* An object with an unknown code and data but no message failed to decode.
C19_Witness ==
    /\ ErrorDecoded
    /\ ~decoded.ok
    /\ HasIntegerCode
    /\ InCode.v.lo = 9999
    /\ ~InMessage.some
    /\ InData.some

\* The frame that was handed to the deserializer of RpcResponse, once it has
\* returned.
ResponseDecoded == input.as = "RpcResponse" /\ decoded # NotDecoded
HasKey(k) == Get(input.value, k).some

\* C20: a frame with a result key is never decoded as Error; a frame without a
\* result key is never decoded as Success, and is decoded as Error only when
\* it has an error key.
C20_ResultKeyDecides ==
    ResponseDecoded =>
        /\ HasKey(resultKey) => ~(decoded.ok /\ decoded.v.variant = "Error")
        /\ ~HasKey(resultKey) => ~(decoded.ok /\ decoded.v.variant = "Success")
        /\ (~HasKey(resultKey) /\ ~HasKey(error)) => ~decoded.ok

\* C21: a frame for nextTransaction that carries a well-formed error object and
\* no result is handed back by next_mempool_tx as an Ok value, the Error
\* variant of the response holding the decoded error; and into() turns Success
\* into Ok of the result and Error into Err of the error variant.
C21_ErrorIsAnOutcome ==
    /\ (/\ input.as = "NextTransactionResponse"
        /\ decoded # NotDecoded
        /\ ~HasKey(resultKey)
        /\ HasKey(jsonrpcKey)
        /\ HasKey(error)
        /\ Get(Get(input.value, error).v, message).some) =>
            /\ decoded.ok
            /\ decoded.v.variant = "Error"
            /\ decoded.v.body.payload.message
                  = Get(Get(input.value, error).v, message).v.v
            /\ decoded.v.body.payload.variant
                  = IF Get(Get(input.value, error).v, code).v.lo = 4000
                    THEN "MustAcquireMempoolFirst" ELSE "Unknown"
    /\ (input.as = "Into" /\ decoded # NotDecoded) =>
            LET response == RpcResponseDeserialize(AcquireMempoolResult,
                                                   EvaluationError, input.value).v
            IN  /\ response.variant = "Success" =>
                      /\ decoded.v.is = "Ok"
                      /\ decoded.v.v = response.body.payload
                /\ response.variant = "Error" =>
                      /\ decoded.v.is = "Err"
                      /\ decoded.v.v = response.body.payload

\* next_mempool_tx handed back the error envelope with the known code 4000.
C21_Witness ==
    /\ input.as = "NextTransactionResponse"
    /\ decoded.ok
    /\ decoded.v.variant = "Error"
    /\ decoded.v.body.payload.variant = "MustAcquireMempoolFirst"

\* The wire object a request was serialized to.
RequestSerialized == input.as \in {"WsRequest", "HttpRequest"} /\ decoded # NotDecoded
OnWire(k) == Get(decoded.v, k)
CarriesVersionAndMethod ==
    /\ OnWire(jsonrpcKey) = Some(JString("2.0"))
    /\ OnWire(methodKey) = Some(JString(input.value.method))

C23_AccessorsRoundTrip ==
    (ErrorDecoded /\ "code" \in DOMAIN decoded) =>
        /\ decoded.code = (IF InCode.v.hi = 0 THEN InCode.v.lo
                           ELSE (InCode.v.lo - 2147483647) - 1)
        /\ decoded.message = InMessage.v.v

\* The accessors were called on a decoded structured variant of code 2.
C23_Witness ==
    /\ ErrorDecoded
    /\ "code" \in DOMAIN decoded
    /\ decoded.v.variant = "NodeTipTooOld"
    /\ decoded.code = 2

\* C24: a read_response that is in its read loop returns once the stream has
\* ended or holds a text frame of the awaited identity; while the stream is
\* open with nothing to read the call does not return, and reading a text
\* frame of another identity leaves it in the loop: nothing but the stream
\* ends the wait.
C24_ReturnsOrWaits ==
    /\ (/\ pc = "reading"
        /\ \/ closed
           \/ \E k \in 1..Len(wire) :
                wire[k].kind = "text" /\ WireIdentity(wire[k]) = awaiting)
          ~> (pc = "idle")
    /\ [][ (pc = "reading" /\ wire = <<>> /\ ~closed) =>
              (pc' = "reading" /\ result' = result /\ awaiting' = awaiting) ]_vars
    /\ [][ (/\ TakesFrame
            /\ Head(wire).kind = "text"
            /\ WireIdentity(Head(wire)) # awaiting) => pc' = "reading" ]_vars

\* A call returned the awaited frame from the stream after it had read and
\* buffered a frame of another identity.
C24_Witness ==
    /\ pc = "idle"
    /\ result.status = "Ok"
    /\ result.src = "stream"
    /\ \E k \in 1..Len(messages) : messages[k][2].fid < result.frame.fid

\* C25: acquire_mempool, handed a success envelope that carries the id and
\* whose result holds acquired and slot, returns Ok with those two values.
C25_AcquireReturnsResult ==
    (/\ input.as = "AcquireMempool"
     /\ decoded # NotDecoded
     /\ HasKey(idKey)
     /\ HasKey(resultKey)
     /\ FromValueStruct(AcquireMempoolResult, Get(input.value, resultKey).v).ok)
    => /\ decoded.ok
       /\ decoded.v = FromValueStruct(AcquireMempoolResult,
                                      Get(input.value, resultKey).v).v

\* The buffered entries whose frame carries no id, in buffer order.
IdlessEntries(msgs) == SelectSeq(msgs, LAMBDA e : e[2].id = NoId)

\* C26: a text frame with a method and no id is never what a read_response or
\* a request returns; when the read loop takes it off the stream it is appended
\* to the buffer and the call goes on reading; and no step removes an id-less
\* entry from the buffer or moves it behind a later one.
C26_IdlessStaysBuffered ==
    /\ [](result.status = "Ok" /\ result.op \in {"read", "request"}
             => result.frame.id # NoId)
    /\ [][ /\ (TakesFrame /\ Head(wire).kind = "text" /\ Head(wire).id = NoId) =>
                /\ messages' = Append(messages, <<WireIdentity(Head(wire)), Head(wire)>>)
                /\ pc' = "reading"
                /\ result' = result
           /\ \/ IdlessEntries(messages') = IdlessEntries(messages)
              \/ /\ TakesFrame
                 /\ IdlessEntries(messages') =
                        Append(IdlessEntries(messages),
                               <<WireIdentity(Head(wire)), Head(wire)>>) ]_vars

\* A frame without an id is still buffered after the call that read it has
\* returned and a later call has been served from the buffer.
C26_Witness ==
    /\ pc = "idle"
    /\ result.status = "Ok"
    /\ result.src = "buffer"
    /\ \E k \in 1..Len(messages) :
         messages[k][2].id = NoId /\ messages[k][2].fid < result.frame.fid

\* C27: when read_response or request is called with a buffered identity and
\* the first buffered frame of that identity does not decode as the caller's
\* type, the call returns the decoding error and that entry is gone from the
\* buffer: the buffer is the old one without it, one entry shorter, so the
\* frame is not there for a later call.
C27_FailedClaimRemoves ==
    [][ (/\ ClaimsBuffered
         /\ ~FromStrT(messages[FirstBuffered(result'.ident)][2])) =>
            LET k == FirstBuffered(result'.ident) IN
            /\ result'.status = "Err"
            /\ result'.err = "deserialize payload"
            /\ pc' = "idle"
            /\ messages' = RemoveAt(messages, k)
            /\ Len(messages') = Len(messages) - 1
            /\ \A j \in 1..Len(messages') : messages'[j][2].fid # messages[k][2].fid
      ]_vars

\* A call was handed a buffered frame that did not decode, while another
\* frame stays buffered.
C27_Witness ==
    /\ pc = "idle"
    /\ result.status = "Err"
    /\ result.src = "buffer"
    /\ result.err = "deserialize payload"
    /\ "decode" \in faults
    /\ Len(messages) = 1

\* C28: a step in which send_request returns takes nothing off the stream and
\* leaves the buffer as it was, whatever it returns; and a step in which
\* request returns the error of its write takes nothing off the stream, leaves
\* the buffer as it was and starts no read.
C28_SendReadsNothing ==
    [][ /\ (result' # result /\ result'.op = "send") =>
              /\ wire' = wire
              /\ messages' = messages
              /\ delivered' = delivered
              /\ pc' = "idle"
              /\ awaiting' = awaiting
        /\ (result' # result /\ result'.op = "request"
            /\ result'.status = "Err" /\ result'.err = "write") =>
              /\ wire' = wire
              /\ messages' = messages
              /\ delivered' = delivered
              /\ pc' = "idle"
              /\ awaiting' = awaiting
              /\ outstanding' = outstanding
      ]_vars

\* A send_request has failed at its write while a frame was buffered and the
\* stream was open.
C28_Witness ==
    /\ result.op = "send"
    /\ result.status = "Err"
    /\ result.err = "write"
    /\ messages # <<>>
    /\ ~closed

FacadeReturned == input.as = "QueryTip" /\ decoded # NotDecoded
\* C29: query_tip (the facades share `request(..).await.unwrap().into()`)
\* panics when sending failed, when the body could not be read and when the
\* body does not decode as a response envelope; it returns Err only for an
\* envelope that decoded as an error, with the decoded error variant, and Ok
\* with the decoded result for one that decoded as a success.
C29_FacadePanics ==
    FacadeReturned =>
        LET outcome == decoded.v
            envelope == TipResponseDeserialize(input.value)
        IN  /\ input.transport # "sent" => outcome = Panic
            /\ (input.transport = "sent" /\ ~envelope.ok) => outcome = Panic
            /\ outcome.is = "Err" =>
                 /\ input.transport = "sent"
                 /\ envelope.ok
                 /\ envelope.v.variant = "Error"
                 /\ DeserializeError(TipError, Get(input.value, error).v).ok
                 /\ outcome.v = DeserializeError(TipError, Get(input.value, error).v).v
            /\ outcome.is = "Ok" =>
                 /\ input.transport = "sent"
                 /\ outcome.v = TipFromValue(Get(input.value, resultKey).v).v

\* The request went through and the body was no response envelope: the call
\* panicked.
C29_Witness ==
    /\ FacadeReturned
    /\ input.transport = "sent"
    /\ input.value.t = "object"
    /\ decoded.v = Panic

PairCompared == input.as = "Tips" /\ decoded # NotDecoded
\* C30: partial_cmp(a, b) is Some(Equal) exactly when a == b; two Points
\* compare as their slots do; Origin and a Point do not compare.
C30_OrderAgreesWithEq ==
    PairCompared =>
        LET a == input.value.a
            b == input.value.b
        IN  /\ (decoded.v.cmp = Some("Equal")) <=> decoded.v.eq
            /\ (a.tip = "Point" /\ b.tip = "Point") =>
                   decoded.v.cmp = Some(U64Cmp(a.slot, b.slot))
            /\ a.tip # b.tip => decoded.v.cmp = None

====
